---- MODULE Spec2Model ----
(***************************************************************************)
(* A model of test_files/python/security_vulnerabilities.py.               *)
(*                                                                         *)
(* Three functions of the file are modelled statement by statement, each   *)
(* under a specification of its own:                                       *)
(*   Spec       get_user_data(user_id), called again and again             *)
(*   TokenSpec  generate_session_token()                                   *)
(*   IneffSpec  inefficient_operations()                                   *)
(* Text is a sequence of one-character strings, so that formatting and     *)
(* concatenation are computed rather than assumed.                         *)
(***************************************************************************)
EXTENDS Integers, Sequences, FiniteSets, TLC

VARIABLES
    \* get_user_data
    pc,            \* the line about to run, or "idle" between calls
    user_id,       \* the argument of the call in progress (or of the last one)
    conn,          \* local conn: <<>> unbound, <<"users.db">> once connected
    cursor,        \* local cursor: <<>> unbound, <<"cursor">> once created
    query,         \* local query: <<>> unbound, <<text>> once built
    executed,      \* the cursor.execute calls of this call: <<>> or <<[sql, params]>>
    outcome,       \* how the last call ended: "none", "returned", "raised"
    prev,          \* the call before: <<>> or <<[user_id, executed]>>
    \* generate_session_token
    tpc,           \* the line about to run
    rng,           \* the random module's hidden state: [pattern, pos]
    drawn,         \* the values random.randint returned so far, in order
    parts,         \* the list the comprehension builds
    token,         \* local token: <<>> unbound, <<text>> once joined
    tret,          \* the return value: <<>> or <<text>>
    \* inefficient_operations
    ipc,           \* the line about to run
    it,            \* the position of range's iterator
    i,             \* loop variable i: <<>> unbound, <<value>> once bound
    large_list,    \* local large_list: <<>> unbound, <<list>> once bound
    unused_variable,   \* <<>> unbound, <<text>> once written
    another_unused,    \* <<>> unbound, <<42>> once written
    iret           \* the return value: <<>> or <<list>>

sqlVars == <<pc, user_id, conn, cursor, query, executed, outcome, prev>>
tokVars == <<tpc, rng, drawn, parts, token, tret>>
ineffVars == <<ipc, it, i, large_list, unused_variable, another_unused, iret>>
vars == <<sqlVars, tokVars, ineffVars>>

---------------------------------------------------------------------------
\* Bounds of the model.

\* Longest str argument given to get_user_data.
MaxIdLen == 2
\* int arguments given to get_user_data range over -MaxIntId .. MaxIntId.
MaxIntId == 11
\* The random source repeats a pattern of this many values.
RandPeriod == 3
\* The stop of range() in inefficient_operations; the source has 100000
\* (line 92), scaled down here.
RangeStop == 2000

\* Characters a str argument is made of.
Alphabet == {"1", "-", "'"}

---------------------------------------------------------------------------
\* Text.

DigitChars == <<"0", "1", "2", "3", "4", "5", "6", "7", "8", "9">>

DigitChar(d) == DigitChars[d + 1]

RECURSIVE NatToText(_)
NatToText(n) ==
    IF n < 10 THEN <<DigitChar(n)>>
    ELSE NatToText(n \div 10) \o <<DigitChar(n % 10)>>

\* str(n) of a Python int: decimal, with a leading "-" when negative.
IntToText(n) == IF n < 0 THEN <<"-">> \o NatToText(-n) ELSE NatToText(n)

\* What an f-string's {v} yields: format(v, ""), which is str(v).
Format(v) ==
    CASE v.kind = "str" -> v.val
      [] v.kind = "int" -> IntToText(v.val)
      [] v.kind = "none" -> <<"N", "o", "n", "e">>

RECURSIVE TextsUpTo(_)
TextsUpTo(n) ==
    IF n = 0 THEN {<<>>}
    ELSE LET shorter == TextsUpTo(n - 1)
         IN  shorter \cup {Append(s, c) : s \in shorter, c \in Alphabet}

\* The arguments get_user_data is called with.
UserIds ==
    {[kind |-> "str", val |-> s] : s \in TextsUpTo(MaxIdLen)}
        \cup {[kind |-> "int", val |-> n] : n \in (-MaxIntId)..MaxIntId}
        \cup {[kind |-> "none", val |-> <<>>]}

---------------------------------------------------------------------------
\* get_user_data (lines 14-23).

\* "SELECT * FROM users WHERE id = "
QueryPrefix ==
    <<"S", "E", "L", "E", "C", "T", " ", "*", " ", "F", "R", "O", "M", " ",
      "u", "s", "e", "r", "s", " ", "W", "H", "E", "R", "E", " ", "i", "d",
      " ", "=", " ">>

\* A parameterised query: a placeholder where the argument would go.
QueryTextPlaceholder(u) == QueryPrefix \o <<"?">>

\* f"SELECT * FROM users WHERE id = {user_id}"
QueryText(u) == QueryPrefix \o Format(u)

\* cursor.execute(query): the statement text, and no parameters.
ExecuteCall(q) == [sql |-> q, params |-> <<>>]

NoUserId == [kind |-> "none", val |-> <<>>]

SqlInit ==
    /\ pc = "idle"
    /\ user_id = NoUserId
    /\ conn = <<>>
    /\ cursor = <<>>
    /\ query = <<>>
    /\ executed = <<>>
    /\ outcome = "none"
    /\ prev = <<>>

\* A caller calls get_user_data(u); the locals of the call start unbound.
Call ==
    /\ pc = "idle"
    /\ \E u \in UserIds : user_id' = u
    /\ prev' = IF outcome = "none" THEN prev
               ELSE <<[user_id |-> user_id, executed |-> executed]>>
    /\ conn' = <<>>
    /\ cursor' = <<>>
    /\ query' = <<>>
    /\ executed' = <<>>
    /\ outcome' = "none"
    /\ pc' = "l16"
    /\ UNCHANGED <<tokVars, ineffVars>>

\* conn = sqlite3.connect('users.db')
Connect ==
    /\ pc = "l16"
    /\ conn' = <<"users.db">>
    /\ pc' = "l17"
    /\ UNCHANGED <<user_id, cursor, query, executed, outcome, prev>>
    /\ UNCHANGED <<tokVars, ineffVars>>

\* sqlite3.connect raises (the file cannot be opened).
ConnectRaises ==
    /\ pc = "l16"
    /\ outcome' = "raised"
    /\ pc' = "idle"
    /\ UNCHANGED <<user_id, conn, cursor, query, executed, prev>>
    /\ UNCHANGED <<tokVars, ineffVars>>

\* cursor = conn.cursor()
Cursor ==
    /\ pc = "l17"
    /\ cursor' = <<"cursor">>
    /\ pc' = "l20"
    /\ UNCHANGED <<user_id, conn, query, executed, outcome, prev>>
    /\ UNCHANGED <<tokVars, ineffVars>>

\* query = f"SELECT * FROM users WHERE id = {user_id}"
BuildQuery ==
    /\ pc = "l20"
    /\ query' = <<QueryText(user_id)>>
    /\ pc' = "l21"
    /\ UNCHANGED <<user_id, conn, cursor, executed, outcome, prev>>
    /\ UNCHANGED <<tokVars, ineffVars>>

\* cursor.execute(query), and the statement runs.
Execute ==
    /\ pc = "l21"
    /\ executed' = Append(executed, ExecuteCall(query[1]))
    /\ pc' = "l23"
    /\ UNCHANGED <<user_id, conn, cursor, query, outcome, prev>>
    /\ UNCHANGED <<tokVars, ineffVars>>

\* cursor.execute(query), and sqlite3 raises on the statement it was given.
ExecuteRaises ==
    /\ pc = "l21"
    /\ executed' = Append(executed, ExecuteCall(query[1]))
    /\ outcome' = "raised"
    /\ pc' = "idle"
    /\ UNCHANGED <<user_id, conn, cursor, query, prev>>
    /\ UNCHANGED <<tokVars, ineffVars>>

\* return cursor.fetchall()
Fetchall ==
    /\ pc = "l23"
    /\ outcome' = "returned"
    /\ pc' = "idle"
    /\ UNCHANGED <<user_id, conn, cursor, query, executed, prev>>
    /\ UNCHANGED <<tokVars, ineffVars>>

Next ==
    \/ Call
    \/ Connect
    \/ ConnectRaises
    \/ Cursor
    \/ BuildQuery
    \/ Execute
    \/ ExecuteRaises
    \/ Fetchall

---------------------------------------------------------------------------
\* generate_session_token (lines 66-70).

\* range(32)
TokenLen == 32
\* random.randint(0, 9)
RandLo == 0
RandHi == 9

\* A range one too wide, as random.randint(0, 10) would give.
RandValuesWide == RandLo..(RandHi + 1)

\* The values random.randint(0, 9) returns.
RandValues == RandLo..RandHi

\* The value the random source returns next, from its hidden state.
RandInt(r) == r.pattern[(r.pos % RandPeriod) + 1]

RECURSIVE Join(_)
\* ''.join(list)
Join(l) == IF l = <<>> THEN <<>> ELSE Head(l) \o Join(Tail(l))

TokenInit ==
    /\ tpc = "l69"
    /\ rng \in {[pattern |-> p, pos |-> 0] : p \in [1..RandPeriod -> RandValues]}
    /\ drawn = <<>>
    /\ parts = <<>>
    /\ token = <<>>
    /\ tret = <<>>

\* One iteration of [str(random.randint(0, 9)) for _ in range(32)].
TokenDraw ==
    /\ tpc = "l69"
    /\ Len(parts) < TokenLen
    /\ LET d == RandInt(rng)
       IN  /\ drawn' = Append(drawn, d)
           /\ parts' = Append(parts, IntToText(d))
    /\ rng' = [rng EXCEPT !.pos = (rng.pos + 1) % RandPeriod]
    /\ UNCHANGED <<tpc, token, tret>>
    /\ UNCHANGED <<sqlVars, ineffVars>>

\* range(32) is exhausted: token = ''.join(the list)
TokenJoin ==
    /\ tpc = "l69"
    /\ Len(parts) >= TokenLen
    /\ token' = <<Join(parts)>>
    /\ tpc' = "l70"
    /\ UNCHANGED <<rng, drawn, parts, tret>>
    /\ UNCHANGED <<sqlVars, ineffVars>>

\* return token
TokenReturn ==
    /\ tpc = "l70"
    /\ tret' = token
    /\ tpc' = "done"
    /\ UNCHANGED <<rng, drawn, parts, token>>
    /\ UNCHANGED <<sqlVars, ineffVars>>

TokenNext ==
    \/ TokenDraw
    \/ TokenJoin
    \/ TokenReturn

---------------------------------------------------------------------------
\* inefficient_operations (lines 88-99).

\* A list that grows at the front.
ListInsertFront(l, x) == <<x>> \o l

\* list.append
ListAppend(l, x) == Append(l, x)

IneffInit ==
    /\ ipc = "l91"
    /\ it = 0
    /\ i = <<>>
    /\ large_list = <<>>
    /\ unused_variable = <<>>
    /\ another_unused = <<>>
    /\ iret = <<>>

\* large_list = []
IneffNewList ==
    /\ ipc = "l91"
    /\ large_list' = << <<>> >>
    /\ ipc' = "l92"
    /\ UNCHANGED <<it, i, unused_variable, another_unused, iret>>
    /\ UNCHANGED <<sqlVars, tokVars>>

\* for i in range(100000): large_list.append(i)
IneffAppend ==
    /\ ipc = "l92"
    /\ it < RangeStop
    /\ i' = <<it>>
    /\ large_list' = <<ListAppend(large_list[1], it)>>
    /\ it' = it + 1
    /\ UNCHANGED <<ipc, unused_variable, another_unused, iret>>
    /\ UNCHANGED <<sqlVars, tokVars>>

\* range is exhausted: the loop ends.
IneffLoopExit ==
    /\ ipc = "l92"
    /\ it >= RangeStop
    /\ ipc' = "l96"
    /\ UNCHANGED <<it, i, large_list, unused_variable, another_unused, iret>>
    /\ UNCHANGED <<sqlVars, tokVars>>

\* unused_variable = "This is never used"
IneffUnused ==
    /\ ipc = "l96"
    /\ unused_variable' = <<"This is never used">>
    /\ ipc' = "l97"
    /\ UNCHANGED <<it, i, large_list, another_unused, iret>>
    /\ UNCHANGED <<sqlVars, tokVars>>

\* another_unused = 42
IneffAnother ==
    /\ ipc = "l97"
    /\ another_unused' = <<42>>
    /\ ipc' = "l99"
    /\ UNCHANGED <<it, i, large_list, unused_variable, iret>>
    /\ UNCHANGED <<sqlVars, tokVars>>

\* return large_list
IneffReturn ==
    /\ ipc = "l99"
    /\ iret' = large_list
    /\ ipc' = "done"
    /\ UNCHANGED <<it, i, large_list, unused_variable, another_unused>>
    /\ UNCHANGED <<sqlVars, tokVars>>

IneffNext ==
    \/ IneffNewList
    \/ IneffAppend
    \/ IneffLoopExit
    \/ IneffUnused
    \/ IneffAnother
    \/ IneffReturn

---------------------------------------------------------------------------
\* Specifications.

\* generate_session_token has not been called.
TokenNotCalled ==
    /\ tpc = "idle"
    /\ rng = [pattern |-> [k \in 1..RandPeriod |-> RandLo], pos |-> 0]
    /\ drawn = <<>>
    /\ parts = <<>>
    /\ token = <<>>
    /\ tret = <<>>

\* inefficient_operations has not been called.
IneffNotCalled ==
    /\ ipc = "idle"
    /\ it = 0
    /\ i = <<>>
    /\ large_list = <<>>
    /\ unused_variable = <<>>
    /\ another_unused = <<>>
    /\ iret = <<>>

\* get_user_data, called again and again.
Init == SqlInit /\ TokenNotCalled /\ IneffNotCalled

Spec == Init /\ [][Next]_vars

\* One call of generate_session_token. The interpreter runs the next
\* statement whenever there is one.
TokenStart == SqlInit /\ TokenInit /\ IneffNotCalled

TokenSpec == TokenStart /\ [][TokenNext]_vars /\ WF_vars(TokenNext)

\* One call of inefficient_operations.
IneffStart == SqlInit /\ TokenNotCalled /\ IneffInit

IneffSpec == IneffStart /\ [][IneffNext]_vars /\ WF_vars(IneffNext)

---------------------------------------------------------------------------
\* Properties of get_user_data.

\* The statement text get_user_data(u) is read to execute: the prefix, then
\* the text of u, character for character.
InjectedSql(u) == QueryPrefix \o Format(u)

\* The one cursor.execute call of a call with argument u that reached line 21.
IsInjectedCall(calls, u) ==
    /\ Len(calls) = 1
    /\ calls[1].sql = InjectedSql(u)
    /\ SubSeq(calls[1].sql, Len(QueryPrefix) + 1, Len(calls[1].sql)) = Format(u)
    /\ calls[1].params = <<>>

\* C8: get_user_data is open to SQL injection. Whenever a call has passed a
\* statement to cursor.execute, that statement is exactly
\* "SELECT * FROM users WHERE id = " followed by the text of user_id, with no
\* parameters bound; the same holds of the call before; and when the two
\* calls' user_id texts differ, so do the statements they executed.
C8_SqlInjection ==
    /\ executed # <<>> => IsInjectedCall(executed, user_id)
    /\ \A k \in 1..Len(prev) :
           prev[k].executed # <<>>
               => IsInjectedCall(prev[k].executed, prev[k].user_id)
    /\ \A k \in 1..Len(prev) :
           (/\ executed # <<>>
            /\ prev[k].executed # <<>>
            /\ Format(prev[k].user_id) # Format(user_id))
               => prev[k].executed[1].sql # executed[1].sql

\* Two calls in a row reached cursor.execute, the first with the int 1 and the
\* second with the str "1'", and both statements were executed as given.
C8_Witness ==
    /\ prev # <<>>
    /\ prev[1].user_id = [kind |-> "int", val |-> 1]
    /\ prev[1].executed # <<>>
    /\ user_id = [kind |-> "str", val |-> <<"1", "'">>]
    /\ executed # <<>>
    /\ executed[1].sql = QueryPrefix \o <<"1", "'">>
    /\ outcome = "returned"

---------------------------------------------------------------------------
\* Properties of generate_session_token.

DigitSet == {DigitChars[k] : k \in 1..Len(DigitChars)}

\* The token returned: TokenLen characters, each a decimal digit, the k-th
\* one the digit of the k-th value drawn.
TokenReturned ==
    /\ Len(tret) = 1
    /\ Len(tret[1]) = TokenLen
    /\ Len(drawn) = TokenLen
    /\ \A k \in 1..TokenLen :
           /\ tret[1][k] \in DigitSet
           /\ drawn[k] \in RandLo..RandHi
           /\ tret[1][k] = DigitChar(drawn[k])

\* C9: generate_session_token terminates, and what it returns is a string of
\* exactly 32 characters, each a decimal digit, whose k-th character is the
\* k-th value random.randint(0, 9) returned.
C9_TokenIsDrawnDigits ==
    /\ [](tpc = "done" => TokenReturned)
    /\ <>(tpc = "done")

\* The function returned a token in which two different digits occur.
C9_Witness ==
    /\ tpc = "done"
    /\ Len(tret) = 1
    /\ Len(tret[1]) = TokenLen
    /\ tret[1][1] = "9"
    /\ tret[1][2] = "0"
    /\ tret[1][TokenLen] = "0"

---------------------------------------------------------------------------
\* Properties of inefficient_operations.

\* The list 0, 1, ..., n - 1.
UpTo(n) == [k \in 1..n |-> k - 1]

\* C10: inefficient_operations terminates and returns the list 0, 1, ...,
\* RangeStop - 1 (RangeStop elements, the one at index k being k); at every
\* step of the loop the list built so far is the prefix 0 .. it - 1; and the
\* statements that write unused_variable and another_unused leave the list as
\* it is.
C10_ReturnsRange ==
    /\ [](ipc = "l92" => large_list = <<UpTo(it)>>)
    /\ [](ipc = "done" => (iret = <<UpTo(RangeStop)>> /\ Len(iret[1]) = RangeStop))
    /\ [][(ipc \in {"l96", "l97"}) => (large_list' = large_list)]_vars
    /\ <>(ipc = "done")

\* The function returned, after the loop ran to its end and both unused
\* locals were written.
C10_Witness ==
    /\ ipc = "done"
    /\ Len(iret) = 1
    /\ Len(iret[1]) = RangeStop
    /\ iret[1][RangeStop] = RangeStop - 1
    /\ unused_variable = <<"This is never used">>
    /\ another_unused = <<42>>

====
